---- MODULE Spec2Model ----
(***************************************************************************)
(* autoDeleteRecFiles: the evaluation cycle main() of the entry script,    *)
(* the selector and executor of lib/fileManager.js, the probe of           *)
(* lib/diskManager.js and the notifier of lib/emailSender.js.              *)
(*                                                                         *)
(* Every invocation of main() is a "run" k: the k-th trigger of the cron   *)
(* schedule (or the immediate call at start-up).  A run is the evaluation  *)
(* cycle and, when the cycle arms one, the setTimeout callback it armed.   *)
(* Runs interleave at every await of the source.  The locals of a run are  *)
(* the fields of run[k]; they are dropped when they go out of scope.       *)
(*                                                                         *)
(* Sizes and free space are in GB; comparisons against the buffered target *)
(* are made in 1/100 GB so that minFreeSpaceGB * (1 + bufferPercentage/100)*)
(* stays an integer.  The arithmetic is exact: the rounding of the doubles *)
(* of the source is not modelled.                                          *)
(*                                                                         *)
(* scanDirectories is one atomic read of the disk.  The failures of the    *)
(* probe, of the mail transport and of fs.remove are nondeterministic and  *)
(* counted: a behaviour holds at most MaxFaults of them.                   *)
(***************************************************************************)
EXTENDS Integers, Sequences, FiniteSets, TLC

VARIABLES
    recordingsPaths,        \* config.recordingsPaths: sequence of monitored paths
    disk,                   \* the directories that exist: set of [path, sizeGB, mtime]
    freeGB,                 \* volume root -> free space of the volume
    isDeletionScheduled,    \* the module-level flag of the entry script
    alive,                  \* FALSE once the process was ended by an unhandled rejection
    ticks,                  \* number of times the schedule fires, the call at start-up included
    started,                \* number of main() invocations triggered so far
    run,                    \* run -> the locals of the invocation and of its callback
    mail,                   \* the message the transporter accepted last
    faults                  \* number of failures of the environment so far

(* The fields of run[k]:
     pc                      the await the run is suspended at, or how it ended
     i                       index of the for-loop over recordingsPaths
     diskCache               root -> spaceInfo or NoInfo
     results                 sequence of {recordingsPath, spaceInfo, dirsToDelete};
                             once the timer is armed, the triggeredResults it captured
     allDirs                 value returned by the latest scanDirectories call
     allDirsToDelete         the consolidated list, captured by the timer
     j                       index of the loop of deleteDirectories
     deletedDirs             deletedDirs of deleteDirectories
     removeCalls             the paths fs.remove was called on, in call order
     postDeleteDiskCache     root -> spaceInfo or NoInfo, in the callback
     m                       index of the loop over triggeredResults in the callback
     postDeletionSpaceChecks sequence of {path, spaceInfo}
     probeCalls              root -> number of getDiskSpace calls of the cycle, and
                             of the callback once the timer is armed
     scanCalls               number of scanDirectories calls of the cycle *)

vars == <<recordingsPaths, disk, freeGB, isDeletionScheduled, alive, ticks, started, run,
          mail, faults>>

-----------------------------------------------------------------------------
(* Bounds of the model *)

MaxRuns == 2
MaxItems == 2
MaxFaults == 2

(* Program constants *)

minFreeSpaceGB == 50
bufferPercentage == 10

Runs == 1..MaxRuns

(* Monitored paths are <<root, directory>>, their subdirectories
   <<root, directory, item>>. *)
Roots == {"V1", "V2"}
PathA == <<"V1", "a">>
PathB == <<"V1", "b">>
PathC == <<"V2", "c">>
MonitoredPaths == {PathA, PathB, PathC}

NoInfo == [freeGB |-> -1]

Root(p) == p[1]

Join(dirPath, item) == Append(dirPath, item)

Parent(p) == SubSeq(p, 1, Len(p) - 1)

-----------------------------------------------------------------------------
(* Pure helpers of lib/fileManager.js and of the consolidation in main() *)

RECURSIVE SumSize(_)
SumSize(s) == IF s = << >> THEN 0 ELSE s[1].sizeGB + SumSize(Tail(s))

RECURSIVE Insert(_, _)
Insert(sorted, d) ==
    IF sorted = << >> THEN <<d>>
    ELSE IF sorted[Len(sorted)].mtime - d.mtime <= 0
         THEN Append(sorted, d)
         ELSE Append(Insert(SubSeq(sorted, 1, Len(sorted) - 1), d), sorted[Len(sorted)])

RECURSIVE SortByMtime(_)
SortByMtime(s) ==
    IF s = << >> THEN << >>
    ELSE Insert(SortByMtime(SubSeq(s, 1, Len(s) - 1)), s[Len(s)])

(* TargetFree100 without the buffer: the selection aims at minFreeSpaceGB *)
TargetFreeUnbuffered == minFreeSpaceGB * 100

TargetFree100 == minFreeSpaceGB * (100 + bufferPercentage)

SpaceToFree100(currentFreeGB) == TargetFree100 - 100 * currentFreeGB

(* SelectWalk stopping only once the freed total exceeds the space to free *)
RECURSIVE SelectWalkStrict(_, _, _, _)
SelectWalkStrict(sortedDirs, dirsToDelete, totalSizeToFree, spaceToFree100) ==
    IF sortedDirs = << >> THEN dirsToDelete
    ELSE LET dir == sortedDirs[1]
             total == totalSizeToFree + dir.sizeGB
         IN IF 100 * total > spaceToFree100
            THEN Append(dirsToDelete, dir)
            ELSE SelectWalkStrict(Tail(sortedDirs), Append(dirsToDelete, dir), total,
                                  spaceToFree100)

RECURSIVE SelectWalk(_, _, _, _)
SelectWalk(sortedDirs, dirsToDelete, totalSizeToFree, spaceToFree100) ==
    IF sortedDirs = << >> THEN dirsToDelete
    ELSE LET dir == sortedDirs[1]
             total == totalSizeToFree + dir.sizeGB
         IN IF 100 * total >= spaceToFree100
            THEN Append(dirsToDelete, dir)
            ELSE SelectWalk(Tail(sortedDirs), Append(dirsToDelete, dir), total, spaceToFree100)

(* ScansFor without the early return when nothing at all is to be freed *)
ScansForStrict(currentFreeGB) == SpaceToFree100(currentFreeGB) >= 0

(* getDirectoriesToDelete, lines 91-102: scanDirectories is called only past the
   early return of line 96 *)
ScansFor(currentFreeGB) == SpaceToFree100(currentFreeGB) > 0

GetDirectoriesToDelete(scanned, currentFreeGB) ==
    IF SpaceToFree100(currentFreeGB) <= 0 THEN << >>
    ELSE IF scanned = << >> THEN << >>
    ELSE SelectWalk(SortByMtime(scanned), << >>, 0, SpaceToFree100(currentFreeGB))

(* main(), lines 186-221: the consolidation of the per-path results *)

HasDirs(result) == Len(result.dirsToDelete) > 0

TriggeredResults(res) == SelectSeq(res, HasDirs)

HasDisk(dirsByDisk, diskRoot) == \E n \in 1..Len(dirsByDisk) : dirsByDisk[n].diskRoot = diskRoot

(* GroupByDisk adding up the space to free of every path of the disk *)
RECURSIVE GroupByDiskSummed(_, _)
GroupByDiskSummed(triggered, dirsByDisk) ==
    IF triggered = << >> THEN dirsByDisk
    ELSE LET result == triggered[1]
             diskRoot == Root(result.recordingsPath)
             withDisk == IF HasDisk(dirsByDisk, diskRoot) THEN dirsByDisk
                         ELSE Append(dirsByDisk,
                                     [diskRoot |-> diskRoot, dirs |-> << >>,
                                      spaceToFree100 |-> 0,
                                      spaceInfo |-> result.spaceInfo])
             pushed == [n \in 1..Len(withDisk) |->
                          IF withDisk[n].diskRoot = diskRoot
                          THEN [withDisk[n] EXCEPT
                                  !.dirs = @ \o result.dirsToDelete,
                                  !.spaceToFree100 = @ + SpaceToFree100(result.spaceInfo.freeGB)]
                          ELSE withDisk[n]]
         IN GroupByDiskSummed(Tail(triggered), pushed)

RECURSIVE GroupByDisk(_, _)
GroupByDisk(triggered, dirsByDisk) ==
    IF triggered = << >> THEN dirsByDisk
    ELSE LET result == triggered[1]
             diskRoot == Root(result.recordingsPath)
             withDisk == IF HasDisk(dirsByDisk, diskRoot) THEN dirsByDisk
                         ELSE Append(dirsByDisk,
                                     [diskRoot |-> diskRoot, dirs |-> << >>,
                                      spaceToFree100 |-> SpaceToFree100(result.spaceInfo.freeGB),
                                      spaceInfo |-> result.spaceInfo])
             pushed == [n \in 1..Len(withDisk) |->
                          IF withDisk[n].diskRoot = diskRoot
                          THEN [withDisk[n] EXCEPT !.dirs = @ \o result.dirsToDelete]
                          ELSE withDisk[n]]
         IN GroupByDisk(Tail(triggered), pushed)

RECURSIVE DiskWalk(_, _, _, _)
DiskWalk(sortedDirs, dirsToDeleteForThisDisk, freedSpace, spaceToFree100) ==
    IF sortedDirs = << >> THEN dirsToDeleteForThisDisk
    ELSE IF 100 * freedSpace < spaceToFree100
         THEN DiskWalk(Tail(sortedDirs), Append(dirsToDeleteForThisDisk, sortedDirs[1]),
                       freedSpace + sortedDirs[1].sizeGB, spaceToFree100)
         ELSE dirsToDeleteForThisDisk

DirsForDisk(entry) == DiskWalk(SortByMtime(entry.dirs), << >>, 0, entry.spaceToFree100)

RECURSIVE ConcatPlans(_)
ConcatPlans(dirsByDisk) ==
    IF dirsByDisk = << >> THEN << >>
    ELSE DirsForDisk(dirsByDisk[1]) \o ConcatPlans(Tail(dirsByDisk))

Consolidate(res) == ConcatPlans(GroupByDisk(TriggeredResults(res), << >>))

-----------------------------------------------------------------------------
(* Control flow of main() between two awaits *)

EmptyCache == [r \in Roots |-> NoInfo]

(* LoopFrom without the test of line 159: the selector is called for every path
   whose volume answered *)
RECURSIVE LoopFromAnyFree(_, _, _, _)
LoopFromAnyFree(paths, idx, cache, res) ==
    IF idx > Len(paths)
    THEN [pc |-> IF Consolidate(res) # << >> THEN "warn" ELSE "returned", i |-> idx]
    ELSE IF cache[Root(paths[idx])] = NoInfo
         THEN [pc |-> "probe", i |-> idx]
         ELSE [pc |-> "select", i |-> idx]

(* From the head of iteration idx of the for-loop (line 139) to the next await:
   the probe of an uncached root (149), the selection for a path whose volume is
   short of space (162), the warning mail (225), or the return of main(). *)
RECURSIVE LoopFrom(_, _, _, _)
LoopFrom(paths, idx, cache, res) ==
    IF idx > Len(paths)
    THEN [pc |-> IF Consolidate(res) # << >> THEN "warn" ELSE "returned", i |-> idx]
    ELSE IF cache[Root(paths[idx])] = NoInfo
         THEN [pc |-> "probe", i |-> idx]
         ELSE IF cache[Root(paths[idx])].freeGB < minFreeSpaceGB
              THEN [pc |-> "select", i |-> idx]
              ELSE LoopFrom(paths, idx + 1, cache, res)

(* From the head of iteration idx of the loop of the callback (line 237) to the
   next await: the probe of an uncached root (243) or the completion mail (254). *)
RECURSIVE PostFrom(_, _, _, _)
PostFrom(triggered, idx, cache, checks) ==
    IF idx > Len(triggered)
    THEN [pc |-> "complete", m |-> idx, checks |-> checks]
    ELSE IF cache[Root(triggered[idx].recordingsPath)] = NoInfo
         THEN [pc |-> "reprobe", m |-> idx, checks |-> checks]
         ELSE PostFrom(triggered, idx + 1, cache,
                       Append(checks, [path |-> triggered[idx].recordingsPath,
                                       spaceInfo |-> cache[Root(triggered[idx].recordingsPath)]]))

-----------------------------------------------------------------------------
(* The environment: file system, volume, mail transport *)

Children(d, dirPath) == {x \in d : Parent(x.path) = dirPath}

Orderings(S) ==
    {s \in [1..Cardinality(S) -> S] : \A a, b \in 1..Cardinality(S) : a # b => s[a] # s[b]}

(* scanDirectories: the subdirectories in readdir order, sorted by mtime.  A
   monitored path without subdirectories (or a missing one) gives the empty list.
   The scan also gives the empty list when it throws, which it does when an item
   vanishes between readdir and stat, that is while a callback is removing
   directories (racing). *)
ScanDirectories(d, dirPath, racing) ==
    {SortByMtime(items) : items \in Orderings(Children(d, dirPath))}
        \cup (IF racing THEN {<< >>} ELSE {})

GetDiskSpace(root) == [freeGB |-> freeGB[root]]

Message(subject, k, dirs, checks, diskRoot) ==
    [subject |-> subject, by |-> k, dirs |-> dirs, checks |-> checks, diskRoot |-> diskRoot]

-----------------------------------------------------------------------------
(* Initial states *)

Dir(dirPath, item, sizeGB, mtime) ==
    [path |-> Join(dirPath, item), sizeGB |-> sizeGB, mtime |-> mtime]

TypicalDisk ==
    {Dir(PathA, 1, 10, 1), Dir(PathA, 2, 8, 3), Dir(PathB, 1, 10, 2), Dir(PathB, 2, 4, 4),
     Dir(PathC, 1, 20, 1)}

NoMessage == Message("none", 0, << >>, << >>, "")

Fresh ==
    [pc |-> "waiting", i |-> 1, diskCache |-> EmptyCache, results |-> << >>,
     allDirs |-> << >>, allDirsToDelete |-> << >>, j |-> 1, deletedDirs |-> << >>,
     removeCalls |-> << >>, postDeleteDiskCache |-> EmptyCache, m |-> 1,
     postDeletionSpaceChecks |-> << >>, probeCalls |-> [r \in Roots |-> 0],
     scanCalls |-> 0]

InitRuns ==
    /\ isDeletionScheduled = FALSE
    /\ alive = TRUE
    /\ started = 0
    /\ run = [k \in Runs |-> Fresh]
    /\ mail = NoMessage
    /\ faults = 0

Init ==
    /\ recordingsPaths = <<PathA, PathC>>
    /\ disk = TypicalDisk
    /\ freeGB \in {f \in [Roots -> {40, 48, 60}] : f["V1"] < minFreeSpaceGB /\ f["V2"] = 60}
    /\ ticks = MaxRuns
    /\ InitRuns

(* One evaluation cycle and its callback, over a range of configurations, disk
   contents and free space. *)
Sizes == {5, 10}
Mtimes == {1, 2}
FreeValues == {40, 45, 52, 60}

ItemChoices(dirPath, item) ==
    {{}} \cup {{Dir(dirPath, item, sizeGB, mtime)} : sizeGB \in Sizes, mtime \in Mtimes}

RECURSIVE DiskChoices(_, _)
DiskChoices(dirPath, n) ==
    IF n = 0 THEN {{}}
    ELSE {rest \cup one : rest \in DiskChoices(dirPath, n - 1), one \in ItemChoices(dirPath, n)}

OtherDisks ==
    {{Dir(PathC, 1, 20, 1)},
     {Dir(PathB, 1, 10, 2), Dir(PathC, 1, 20, 1)},
     {Dir(PathB, 1, 5, 1), Dir(PathB, 2, 10, 3), Dir(PathC, 1, 20, 1)}}

WaveInit ==
    /\ recordingsPaths \in {<<PathA, PathB>>, <<PathA, PathA>>, <<PathA, PathC>>}
    /\ disk \in {a \cup o : a \in DiskChoices(PathA, MaxItems), o \in OtherDisks}
    /\ freeGB \in {f \in [Roots -> FreeValues] : f["V2"] \in {40, 60}}
    /\ ticks = 1
    /\ InitRuns

-----------------------------------------------------------------------------
(* Actions: one per await of main() and of the setTimeout callback *)

EnvVars == <<recordingsPaths, disk, freeGB, ticks>>

(* The invocation (or its callback) is over: its locals are out of scope. *)
Ended(state) == [Fresh EXCEPT !.pc = state]

(* Continue without the tests of lines 188 and 223: the warning is sent and the
   timer armed whatever the consolidated list holds *)
ContinueUnchecked(self, idx) ==
    LET nxt == LoopFrom(recordingsPaths, idx, self.diskCache, self.results)
    IN [self EXCEPT !.pc = IF nxt.pc = "returned" THEN "warn" ELSE nxt.pc, !.i = nxt.i,
                    !.allDirsToDelete = IF nxt.pc \in {"warn", "returned"}
                                        THEN Consolidate(self.results) ELSE @]

(* The loop of main() goes on from iteration idx with the locals of `self`; when
   the loop ends the lists are consolidated, and main() returns unless there is
   something to delete. *)
Continue(self, idx) ==
    LET nxt == LoopFrom(recordingsPaths, idx, self.diskCache, self.results)
    IN IF nxt.pc = "returned" THEN Ended("returned")
       ELSE [self EXCEPT !.pc = nxt.pc, !.i = nxt.i,
                         !.allDirsToDelete = IF nxt.pc = "warn"
                                             THEN Consolidate(self.results) ELSE @]

(* A call to the environment fails: the probe, the transporter or fs.remove
   throws. *)
Fault ==
    /\ faults < MaxFaults
    /\ faults' = faults + 1

(* An async function rejects and nothing handles the rejection: the runtime
   either only reports it or ends the process. *)
Reject(k, state) ==
    /\ Fault
    /\ run' = [run EXCEPT ![k] = Ended(state)]
    /\ alive' \in BOOLEAN

(* Main without the test of the flag (lines 131-134 left out) *)
MainUnguarded(k) ==
    /\ alive
    /\ run[k].pc = "waiting"
    /\ started = k - 1
    /\ started < ticks
    /\ started' = k
    /\ run' = [run EXCEPT ![k] = Continue(Fresh, 1)]
    /\ UNCHANGED <<EnvVars, isDeletionScheduled, alive, mail, faults>>

(* main(), lines 130-139 *)
Main(k) ==
    /\ alive
    /\ run[k].pc = "waiting"
    /\ started = k - 1
    /\ started < ticks
    /\ started' = k
    /\ run' = [run EXCEPT ![k] = IF isDeletionScheduled THEN Ended("skipped")
                                 ELSE Continue(Fresh, 1)]
    /\ UNCHANGED <<EnvVars, isDeletionScheduled, alive, mail, faults>>

(* await diskManager.getDiskSpace(recordingsPath), lines 147-155 *)
Probe(k) ==
    /\ alive
    /\ run[k].pc = "probe"
    /\ LET diskRoot == Root(recordingsPaths[run[k].i])
           called == [run[k] EXCEPT !.probeCalls[diskRoot] = @ + 1]
       IN \/ /\ run' = [run EXCEPT ![k] =
                          Continue([called EXCEPT !.diskCache[diskRoot] = GetDiskSpace(diskRoot)],
                                   called.i)]
             /\ UNCHANGED faults
          \/ /\ Fault
             /\ run' = [run EXCEPT ![k] = [called EXCEPT !.pc = "probeErrorMail"]]
    /\ UNCHANGED <<EnvVars, isDeletionScheduled, alive, started, mail>>

(* await emailSender.sendEmail(...) in the catch of the probe, lines 153-154 *)
ProbeErrorMail(k) ==
    /\ alive
    /\ run[k].pc = "probeErrorMail"
    /\ \/ /\ mail' = Message("probeError", k, << >>, << >>, Root(recordingsPaths[run[k].i]))
          /\ run' = [run EXCEPT ![k] = Continue(run[k], run[k].i + 1)]
          /\ UNCHANGED <<alive, faults>>
       \/ /\ Reject(k, "mainRejected")
          /\ UNCHANGED mail
    /\ UNCHANGED <<EnvVars, isDeletionScheduled, started>>

Removing == \E r \in Runs : run[r].pc = "delete"

(* await fileManager.getDirectoriesToDelete(...), lines 162-169 *)
Select(k) ==
    /\ alive
    /\ run[k].pc = "select"
    /\ LET recordingsPath == recordingsPaths[run[k].i]
           spaceInfo == run[k].diskCache[Root(recordingsPath)]
           scans == ScansFor(spaceInfo.freeGB)
       IN \E scanned \in IF scans THEN ScanDirectories(disk, recordingsPath, Removing)
                         ELSE {run[k].allDirs} :
            LET dirsToDelete == GetDirectoriesToDelete(scanned, spaceInfo.freeGB)
                result == [recordingsPath |-> recordingsPath, spaceInfo |-> spaceInfo,
                           dirsToDelete |-> dirsToDelete]
            IN run' = [run EXCEPT ![k] =
                         Continue([run[k] EXCEPT !.allDirs = scanned,
                                                 !.scanCalls = IF scans THEN @ + 1 ELSE @,
                                                 !.results = Append(@, result)],
                                  run[k].i + 1)]
    /\ UNCHANGED <<EnvVars, isDeletionScheduled, alive, started, mail, faults>>

(* The closure of the callback keeps triggeredResults and allDirsToDelete. *)
Armed(self) ==
    [Fresh EXCEPT !.pc = "armed", !.results = TriggeredResults(self.results),
                  !.allDirsToDelete = self.allDirsToDelete]

(* Warn arming the timer also when the warning could not be sent *)
WarnAlwaysArms(k) ==
    /\ alive
    /\ run[k].pc = "warn"
    /\ \/ /\ mail' = Message("warning", k, run[k].allDirsToDelete, << >>, "")
          /\ UNCHANGED faults
       \/ /\ Fault
          /\ UNCHANGED mail
    /\ isDeletionScheduled' = TRUE
    /\ run' = [run EXCEPT ![k] = Armed(run[k])]
    /\ UNCHANGED <<EnvVars, started, alive>>

(* await emailSender.sendEmail(...) of the warning, then the flag and the timer,
   lines 223-229 *)
Warn(k) ==
    /\ alive
    /\ run[k].pc = "warn"
    /\ \/ /\ mail' = Message("warning", k, run[k].allDirsToDelete, << >>, "")
          /\ isDeletionScheduled' = TRUE
          /\ run' = [run EXCEPT ![k] = Armed(run[k])]
          /\ UNCHANGED <<alive, faults>>
       \/ /\ Reject(k, "mainRejected")
          /\ UNCHANGED <<mail, isDeletionScheduled>>
    /\ UNCHANGED <<EnvVars, started>>

(* The delay elapses: the callback starts and calls deleteDirectories,
   lines 229-231 *)
TimerFire(k) ==
    /\ alive
    /\ run[k].pc = "armed"
    /\ run' = [run EXCEPT ![k].pc = "delete"]
    /\ UNCHANGED <<EnvVars, isDeletionScheduled, alive, started, mail, faults>>

(* deleteDirectories has returned: the loop of the callback over
   triggeredResults starts, lines 232-237 *)
AfterDelete(self) ==
    LET nxt == PostFrom(self.results, 1, EmptyCache, << >>)
    IN [self EXCEPT !.pc = nxt.pc, !.m = nxt.m, !.postDeletionSpaceChecks = nxt.checks]

(* Remove with an fs.remove that throws on a path that does not exist *)
RemoveStrict(k) ==
    /\ alive
    /\ run[k].pc = "delete"
    /\ LET dir == run[k].allDirsToDelete[run[k].j]
           gone == {x \in disk : x.path = dir.path}
           last == run[k].j = Len(run[k].allDirsToDelete)
           called == [run[k] EXCEPT !.removeCalls = Append(@, dir.path), !.j = @ + 1]
       IN \/ /\ gone # {}
             /\ disk' = disk \ gone
             /\ freeGB' = [freeGB EXCEPT ![Root(dir.path)] = @ + dir.sizeGB]
             /\ LET removed == [called EXCEPT !.deletedDirs = Append(@, dir)]
                IN run' = [run EXCEPT ![k] = IF last THEN AfterDelete(removed) ELSE removed]
             /\ UNCHANGED faults
          \/ /\ gone = {} \/ faults < MaxFaults
             /\ faults' = IF gone = {} THEN faults ELSE faults + 1
             /\ run' = [run EXCEPT ![k] = IF last THEN AfterDelete(called) ELSE called]
             /\ UNCHANGED <<disk, freeGB>>
    /\ UNCHANGED <<recordingsPaths, ticks, isDeletionScheduled, alive, started, mail>>

(* One iteration of the loop of deleteDirectories: await fs.remove(dir.path),
   lib/fileManager.js lines 141-149.  Removing a path that is already gone
   succeeds. *)
Remove(k) ==
    /\ alive
    /\ run[k].pc = "delete"
    /\ LET dir == run[k].allDirsToDelete[run[k].j]
           gone == {x \in disk : x.path = dir.path}
           last == run[k].j = Len(run[k].allDirsToDelete)
           called == [run[k] EXCEPT !.removeCalls = Append(@, dir.path), !.j = @ + 1]
       IN \/ /\ disk' = disk \ gone
             /\ freeGB' = [freeGB EXCEPT ![Root(dir.path)] =
                             @ + (IF gone = {} THEN 0 ELSE dir.sizeGB)]
             /\ LET removed == [called EXCEPT !.deletedDirs = Append(@, dir)]
                IN run' = [run EXCEPT ![k] = IF last THEN AfterDelete(removed) ELSE removed]
             /\ UNCHANGED faults
          \/ /\ gone # {}
             /\ Fault
             /\ run' = [run EXCEPT ![k] = IF last THEN AfterDelete(called) ELSE called]
             /\ UNCHANGED <<disk, freeGB>>
    /\ UNCHANGED <<recordingsPaths, ticks, isDeletionScheduled, alive, started, mail>>

(* Reprobe taking the spaceInfo the evaluation cycle cached instead of asking the
   volume *)
ReprobeCached(k) ==
    /\ alive
    /\ run[k].pc = "reprobe"
    /\ LET diskRoot == Root(run[k].results[run[k].m].recordingsPath)
           cache == [run[k].postDeleteDiskCache EXCEPT
                       ![diskRoot] = run[k].results[run[k].m].spaceInfo]
           nxt == PostFrom(run[k].results, run[k].m, cache, run[k].postDeletionSpaceChecks)
       IN \/ /\ run' = [run EXCEPT ![k] =
                          [run[k] EXCEPT !.postDeleteDiskCache = cache, !.pc = nxt.pc,
                                         !.m = nxt.m, !.postDeletionSpaceChecks = nxt.checks,
                                         !.probeCalls[diskRoot] = @ + 1]]
             /\ UNCHANGED <<alive, faults>>
          \/ Reject(k, "timerRejected")
    /\ UNCHANGED <<EnvVars, isDeletionScheduled, started, mail>>

(* await diskManager.getDiskSpace(result.recordingsPath) in the callback,
   lines 237-251 *)
Reprobe(k) ==
    /\ alive
    /\ run[k].pc = "reprobe"
    /\ LET diskRoot == Root(run[k].results[run[k].m].recordingsPath)
           cache == [run[k].postDeleteDiskCache EXCEPT ![diskRoot] = GetDiskSpace(diskRoot)]
           nxt == PostFrom(run[k].results, run[k].m, cache, run[k].postDeletionSpaceChecks)
       IN \/ /\ run' = [run EXCEPT ![k] =
                          [run[k] EXCEPT !.postDeleteDiskCache = cache, !.pc = nxt.pc,
                                         !.m = nxt.m, !.postDeletionSpaceChecks = nxt.checks,
                                         !.probeCalls[diskRoot] = @ + 1]]
             /\ UNCHANGED <<alive, faults>>
          \/ Reject(k, "timerRejected")
    /\ UNCHANGED <<EnvVars, isDeletionScheduled, started, mail>>

(* Complete without the reset of the flag (line 256 left out) *)
CompleteNoReset(k) ==
    /\ alive
    /\ run[k].pc = "complete"
    /\ \/ /\ mail' = Message("completion", k, run[k].deletedDirs,
                             run[k].postDeletionSpaceChecks, "")
          /\ run' = [run EXCEPT ![k] = Ended("done")]
          /\ UNCHANGED <<alive, faults, isDeletionScheduled>>
       \/ /\ Reject(k, "timerRejected")
          /\ UNCHANGED <<mail, isDeletionScheduled>>
    /\ UNCHANGED <<EnvVars, started>>

(* await emailSender.sendEmail(...) of the completion notice, then the reset of
   the flag, lines 253-256 *)
Complete(k) ==
    /\ alive
    /\ run[k].pc = "complete"
    /\ \/ /\ mail' = Message("completion", k, run[k].deletedDirs,
                             run[k].postDeletionSpaceChecks, "")
          /\ isDeletionScheduled' = FALSE
          /\ run' = [run EXCEPT ![k] = Ended("done")]
          /\ UNCHANGED <<alive, faults>>
       \/ /\ Reject(k, "timerRejected")
          /\ UNCHANGED <<mail, isDeletionScheduled>>
    /\ UNCHANGED <<EnvVars, started>>

Next ==
    \E k \in Runs :
        \/ Main(k)
        \/ Probe(k)
        \/ ProbeErrorMail(k)
        \/ Select(k)
        \/ Warn(k)
        \/ TimerFire(k)
        \/ Remove(k)
        \/ Reprobe(k)
        \/ Complete(k)

Spec == Init /\ [][Next]_vars

WaveSpec == WaveInit /\ [][Next]_vars

(* fileManager.getDirectoriesToDelete called on its own, with whatever free
   space the volume has: the exported selector, lib/fileManager.js lines 88-131. *)
SelectorFree == {40, 54, 55, 56, 60}

SelectorInit ==
    /\ recordingsPaths \in {<<dirPath>> : dirPath \in MonitoredPaths}
    /\ disk \in {a \cup o : a \in DiskChoices(PathA, MaxItems), o \in OtherDisks}
    /\ freeGB \in [Roots -> SelectorFree]
    /\ ticks = 1
    /\ InitRuns

CallSelector(k) ==
    /\ alive
    /\ run[k].pc = "waiting"
    /\ started = k - 1
    /\ started < ticks
    /\ started' = k
    /\ LET recordingsPath == recordingsPaths[1]
           spaceInfo == GetDiskSpace(Root(recordingsPath))
           scans == ScansFor(spaceInfo.freeGB)
       IN \E scanned \in IF scans THEN ScanDirectories(disk, recordingsPath, Removing)
                         ELSE {<< >>} :
            run' = [run EXCEPT ![k] =
                      [Fresh EXCEPT
                         !.pc = "selected",
                         !.allDirs = scanned,
                         !.scanCalls = IF scans THEN 1 ELSE 0,
                         !.results = <<[recordingsPath |-> recordingsPath,
                                        spaceInfo |-> spaceInfo,
                                        dirsToDelete |->
                                            GetDirectoriesToDelete(scanned, spaceInfo.freeGB)]>>]]
    /\ UNCHANGED <<EnvVars, isDeletionScheduled, alive, mail, faults>>

SelectorNext == \E k \in Runs : CallSelector(k)

SelectorSpec == SelectorInit /\ [][SelectorNext]_vars

(* The steps of the callback of run k; at most one of them is enabled at a time. *)
Callback(k) == TimerFire(k) \/ Remove(k) \/ Reprobe(k) \/ Complete(k)

(* The timer fires once the delay has elapsed, and every awaited call of the
   callback settles. *)
FairInit ==
    /\ recordingsPaths = <<PathA>>
    /\ disk = TypicalDisk
    /\ freeGB \in {f \in [Roots -> {40, 48, 60}] : f["V1"] < minFreeSpaceGB /\ f["V2"] = 60}
    /\ ticks = MaxRuns
    /\ InitRuns

FairSpec == FairInit /\ [][Next]_vars /\ \A k \in Runs : WF_vars(Callback(k))

-----------------------------------------------------------------------------
(* Properties *)

Outstanding(k) == run[k].pc \in {"armed", "delete", "reprobe", "complete"}

(* C1: at any time at most one deferred deletion is armed or executing. *)
C1_AtMostOneDeferredDeletion ==
    Cardinality({k \in Runs : Outstanding(k)}) <= 1

(* C2: a cycle that starts while isDeletionScheduled is true ends at once: it
   probes nothing, scans nothing, sends no mail, arms no timer and leaves the
   flag and everything else as it was; it never acts again. *)
C2_GuardedCycleDoesNothing ==
    [][\A k \in Runs :
         /\ (run[k].pc = "waiting" /\ run'[k].pc # "waiting" /\ isDeletionScheduled)
                => /\ run'[k] = Ended("skipped")
                   /\ \A r \in Runs \ {k} : run'[r] = run[r]
                   /\ UNCHANGED <<disk, freeGB, isDeletionScheduled, mail, faults, alive>>
         /\ run[k].pc = "skipped" => run'[k] = run[k]]_vars

C2_Witness == \E k \in Runs : run[k].pc = "skipped" /\ isDeletionScheduled

(* C3: once the timer of run k is armed, the callback runs to its end and the
   flag is reset, whether or not removals fail, unless a probe or a mail of the
   callback fails or the process is ended. *)
C3_ArmedLeadsToReset ==
    \A k \in Runs :
        (run[k].pc = "armed")
            ~> \/ run[k].pc = "done" /\ ~isDeletionScheduled
               \/ run[k].pc = "timerRejected"
               \/ ~alive

C3_Witness ==
    /\ mail.subject = "completion"
    /\ mail.dirs = << >>
    /\ run[mail.by].pc = "done"
    /\ ~isDeletionScheduled

(* C4: when the re-probe or the completion mail of the callback fails, the flag
   is reset all the same: with no timer armed or executing in a live process the
   flag is false. *)
C4_FlagResetAfterCallbackFailure ==
    (alive /\ \A k \in Runs : ~Outstanding(k)) => ~isDeletionScheduled

(* C5: a mail that cannot be delivered during the evaluation cycle does not end
   the cycle. *)
C5_CycleSurvivesMailFailure ==
    [][\A k \in Runs :
         (run[k].pc \in {"probeErrorMail", "warn"} /\ run'[k] # run[k])
             => run'[k].pc \in {"probe", "select", "warn", "returned", "armed"}]_vars

-----------------------------------------------------------------------------
(* Properties of one evaluation cycle and its callback *)

InCycle(k) == run[k].pc \in {"probe", "probeErrorMail", "select", "warn"}

Last(s) == s[Len(s)]

Front(s) == SubSeq(s, 1, Len(s) - 1)

(* sel is the shortest prefix of inv whose sizes add up to need100 (in 1/100 GB),
   or all of inv when inv is too small. *)
IsShortestPrefix(sel, inv, need100) ==
    /\ Len(sel) <= Len(inv)
    /\ sel = SubSeq(inv, 1, Len(sel))
    /\ IF 100 * SumSize(inv) < need100
       THEN sel = inv
       ELSE /\ sel # << >>
            /\ 100 * SumSize(sel) >= need100
            /\ 100 * SumSize(Front(sel)) < need100

IsOldestFirst(s) == \A a, b \in 1..Len(s) : a < b => s[a].mtime <= s[b].mtime

(* C6: for every oldest-first inventory and every positive space to free, the
   selector returns the shortest prefix of the inventory that covers it, and the
   whole inventory when that is too small: so for the list the cycle got from
   its latest scan, and so for every inventory of the initial disk and every
   free space below the buffered target. *)
C6_SelectorShortestPrefix ==
    /\ \A k \in Runs :
         (InCycle(k) /\ run[k].scanCalls > 0)
            => /\ IsOldestFirst(run[k].allDirs)
               /\ IsShortestPrefix(Last(run[k].results).dirsToDelete, run[k].allDirs,
                                   SpaceToFree100(Last(run[k].results).spaceInfo.freeGB))
    /\ \A dirPath \in MonitoredPaths, free \in FreeValues :
         (started = 0 /\ SpaceToFree100(free) > 0)
            => \A inv \in ScanDirectories(disk, dirPath, FALSE) :
                 IsShortestPrefix(GetDirectoriesToDelete(inv, free), inv, SpaceToFree100(free))

C6_Witness ==
    \E k \in Runs :
        /\ InCycle(k)
        /\ run[k].scanCalls > 0
        /\ Len(run[k].allDirs) > Len(Last(run[k].results).dirsToDelete)
        /\ Len(Last(run[k].results).dirsToDelete) > 0
        /\ 100 * SumSize(Last(run[k].results).dirsToDelete)
               = SpaceToFree100(Last(run[k].results).spaceInfo.freeGB)

OnDisk(dirs, diskRoot) == SelectSeq(dirs, LAMBDA d : Root(d.path) = diskRoot)

Planned(k) == run[k].pc \in {"warn", "armed", "delete", "reprobe", "complete"}

PathsOn(k, diskRoot) ==
    {n \in 1..Len(run[k].results) :
        /\ Root(run[k].results[n].recordingsPath) = diskRoot
        /\ HasDirs(run[k].results[n])}

(* C7: the consolidated list holds, for every volume, one oldest-first plan made
   against the space to free of the volume (target minus the free space every
   path of the volume was evaluated with): without its last directory the plan
   is below it. *)
C7_PlanAgainstVolumeDeficit ==
    \A k \in Runs : Planned(k) =>
        \A diskRoot \in Roots :
            LET plan == OnDisk(run[k].allDirsToDelete, diskRoot)
            IN /\ plan # << >> <=> PathsOn(k, diskRoot) # {}
               /\ IsOldestFirst(plan)
               /\ \A n \in PathsOn(k, diskRoot) :
                    100 * SumSize(Front(plan)) < SpaceToFree100(run[k].results[n].spaceInfo.freeGB)

(* Two paths of one volume each proposed enough for the whole volume, and the
   plan is smaller than what they proposed together. *)
C7_Witness ==
    \E k \in Runs, diskRoot \in Roots :
        /\ Planned(k)
        /\ Cardinality(PathsOn(k, diskRoot)) = 2
        /\ \A n \in PathsOn(k, diskRoot) :
             100 * SumSize(run[k].results[n].dirsToDelete)
                 >= SpaceToFree100(run[k].results[n].spaceInfo.freeGB)
        /\ \E a, b \in PathsOn(k, diskRoot) :
             /\ a # b
             /\ Len(OnDisk(run[k].allDirsToDelete, diskRoot))
                    < Len(run[k].results[a].dirsToDelete) + Len(run[k].results[b].dirsToDelete)
             /\ run[k].results[a].recordingsPath # run[k].results[b].recordingsPath

NoRepeat(s) == \A a, b \in 1..Len(s) : a # b => s[a] # s[b]

(* C8: a plan holds every directory at most once. *)
C8_PlanWithoutDuplicates ==
    \A k \in Runs : Planned(k) => NoRepeat(run[k].allDirsToDelete)

(* C9: the callback calls fs.remove exactly once on every directory of the plan,
   in plan order, whatever the outcome of the earlier calls. *)
C9_EachDirectoryRemovedOnce ==
    \A k \in Runs :
        /\ run[k].pc = "delete"
              => run[k].removeCalls
                    = [n \in 1..(run[k].j - 1) |-> run[k].allDirsToDelete[n].path]
        /\ run[k].pc \in {"reprobe", "complete"}
              => run[k].removeCalls
                    = [n \in 1..Len(run[k].allDirsToDelete) |-> run[k].allDirsToDelete[n].path]
        /\ NoRepeat(run[k].removeCalls)

Range(s) == {s[n] : n \in 1..Len(s)}

(* What the completion notice names: the directories of its table and the
   monitored paths of its summary. *)
Named(msg) == {d.path : d \in Range(msg.dirs)} \cup {c.path : c \in Range(msg.checks)}

(* C10: the completion notice lists as removed exactly the directories of the
   plan whose removal succeeded, and names every directory of the plan whose
   removal failed. *)
C10_CompletionNoticeReportsOutcome ==
    [][\A k \in Runs :
         (run[k].pc = "complete" /\ run'[k].pc = "done")
            => /\ mail'.subject = "completion"
               /\ mail'.dirs = run[k].deletedDirs
               /\ \A d \in Range(run[k].allDirsToDelete) :
                    d \notin Range(run[k].deletedDirs) => d.path \in Named(mail')]_vars

-----------------------------------------------------------------------------
(* Properties of the evaluation cycle *)

(* C11: a cycle whose consolidated list is empty sends no warning, arms no timer
   and leaves the flag alone.  A run waits for the warning mail, or has a timer
   armed or executing, only with a non-empty list; a warning is sent, a timer
   armed and the flag set only by a run that holds a non-empty list, and the
   warning lists it; a cycle that returns changes neither the flag nor the
   mailbox, the report of a failed probe apart. *)
C11_EmptyPlanNeverNotified ==
    /\ []( /\ \A k \in Runs : Planned(k) => run[k].allDirsToDelete # << >>
           /\ mail.subject = "warning" => mail.dirs # << >> )
    /\ [][/\ ( \/ (isDeletionScheduled' /\ ~isDeletionScheduled)
              \/ (mail' # mail /\ mail'.subject = "warning")
              \/ (\E k \in Runs : run'[k].pc = "armed" /\ run[k].pc # "armed") )
                 => \E k \in Runs : /\ run[k].pc = "warn"
                                    /\ run[k].allDirsToDelete # << >>
                                    /\ run'[k].pc = "armed"
                                    /\ mail'.dirs = run[k].allDirsToDelete
          /\ \A k \in Runs :
               (run'[k].pc = "returned" /\ run[k].pc # "returned")
                  => /\ isDeletionScheduled' = isDeletionScheduled
                     /\ mail' # mail => mail'.subject = "probeError"
                     /\ disk' = disk]_vars

(* The volume is short of space, the cycle found nothing to delete and
   returned: no mail, no timer, flag false. *)
C11_Witness ==
    \E k \in Runs :
        /\ run[k].pc = "returned"
        /\ freeGB[Root(recordingsPaths[1])] < minFreeSpaceGB
        /\ mail = NoMessage
        /\ ~isDeletionScheduled
        /\ faults = 0

(* C12: when the free space is at or above the buffered target
   minFreeSpaceGB * (1 + bufferPercentage / 100), the selector returns the empty
   list and does not scan the directory, whatever the directory holds. *)
C12_NoSelectionAtTarget ==
    \A k \in Runs :
        (run[k].pc = "selected" /\ 100 * run[k].results[1].spaceInfo.freeGB >= TargetFree100)
            => /\ run[k].results[1].dirsToDelete = << >>
               /\ run[k].scanCalls = 0

(* The free space is exactly the target and the directory is not empty. *)
C12_Witness ==
    \E k \in Runs :
        /\ run[k].pc = "selected"
        /\ 100 * run[k].results[1].spaceInfo.freeGB = TargetFree100
        /\ Children(disk, run[k].results[1].recordingsPath) # {}
        /\ run[k].results[1].dirsToDelete = << >>
        /\ run[k].scanCalls = 0

(* C13: within one cycle getDiskSpace is called at most once per volume,
   however many monitored paths share the volume and whether or not the call
   failed. *)
C13_ProbeOncePerVolume ==
    \A k \in Runs : \A diskRoot \in Roots :
        (InCycle(k) \/ Planned(k)) => run[k].probeCalls[diskRoot] <= 1

(* C14: a failed probe does not end the cycle.  The failure is reported by a
   mail that names the volume, nothing is raised out of main(), and the loop
   goes on with the following paths, keeping the results it has: it ends with
   the warning for them or returns with nothing to delete. *)
C14_ProbeFailureIsolated ==
    [][\A k \in Runs :
         (run[k].pc = "probeErrorMail" /\ run'[k] # run[k])
            => /\ mail' = Message("probeError", k, << >>, << >>,
                                  Root(recordingsPaths[run[k].i]))
               /\ run'[k].pc \in {"probe", "select", "warn", "returned"}
               /\ run'[k].pc # "returned"
                     => /\ run'[k].i > run[k].i
                        /\ run'[k].results = run[k].results
                        /\ run'[k].diskCache = run[k].diskCache]_vars

(* The place of a path in the lexical order of the paths. *)
NameRank(name) == CASE name = "V1" -> 1 [] name = "V2" -> 2
                    [] name = "a" -> 1 [] name = "b" -> 2 [] name = "c" -> 3

LexRank(p) == (NameRank(p[1]) * 10 + NameRank(p[2])) * 10 + p[3]

IsOldestFirstThenByPath(s) ==
    \A a, b \in 1..Len(s) :
        a < b => \/ s[a].mtime < s[b].mtime
                 \/ s[a].mtime = s[b].mtime /\ LexRank(s[a].path) <= LexRank(s[b].path)

(* C15: the list the selector walks and the plan of every volume are sorted by
   modification time, and directories of equal modification time by path. *)
C15_TieBreakByPath ==
    \A k \in Runs :
        /\ (InCycle(k) /\ run[k].scanCalls > 0) => IsOldestFirstThenByPath(run[k].allDirs)
        /\ Planned(k) => \A diskRoot \in Roots :
                            IsOldestFirstThenByPath(OnDisk(run[k].allDirsToDelete, diskRoot))

-----------------------------------------------------------------------------
(* Properties of the callback *)

AffectedRoots(k) == {Root(run[k].results[n].recordingsPath) : n \in 1..Len(run[k].results)}

(* C16: the callback first calls fs.remove for every directory of the plan, then
   asks every affected volume for its free space, once each and without using
   what the evaluation cycle had cached, then sends the completion notice, and
   resets the flag only after that. *)
C16_CallbackOrder ==
    /\ [](\A k \in Runs :
            /\ run[k].pc \in {"armed", "delete"}
                  => \A diskRoot \in Roots : run[k].probeCalls[diskRoot] = 0
            /\ run[k].pc \in {"reprobe", "complete"}
                  => /\ Len(run[k].removeCalls) = Len(run[k].allDirsToDelete)
                     /\ \A diskRoot \in Roots : run[k].probeCalls[diskRoot] <= 1
            /\ run[k].pc = "complete"
                  => /\ \A diskRoot \in AffectedRoots(k) : run[k].probeCalls[diskRoot] = 1
                     /\ \A diskRoot \in Roots \ AffectedRoots(k) :
                          run[k].probeCalls[diskRoot] = 0
                     /\ Len(run[k].postDeletionSpaceChecks) = Len(run[k].results))
    /\ [][\A k \in Runs :
            /\ (run[k].pc = "reprobe" /\ run'[k] # run[k]
                   /\ run'[k].pc \in {"reprobe", "complete"})
                  => LET diskRoot == Root(run[k].results[run[k].m].recordingsPath)
                     IN /\ run'[k].probeCalls[diskRoot] = run[k].probeCalls[diskRoot] + 1
                        /\ run'[k].postDeleteDiskCache[diskRoot] = [freeGB |-> freeGB[diskRoot]]
                        /\ mail' = mail
                        /\ isDeletionScheduled' = isDeletionScheduled
            /\ (run[k].pc = "delete" /\ run'[k] # run[k])
                  => mail' = mail /\ isDeletionScheduled' = isDeletionScheduled
            /\ (run[k].pc = "complete" /\ run'[k].pc = "done")
                  => /\ mail'.subject = "completion" /\ mail'.by = k
                     /\ mail'.checks = run[k].postDeletionSpaceChecks
                     /\ \A n \in 1..Len(mail'.checks) :
                          mail'.checks[n].spaceInfo
                              = run[k].postDeleteDiskCache[Root(mail'.checks[n].path)]
                     /\ ~isDeletionScheduled'
            /\ (Outstanding(k) /\ isDeletionScheduled /\ ~isDeletionScheduled')
                  => \E r \in Runs : run[r].pc = "complete" /\ run'[r].pc = "done"]_vars

(* Two volumes are affected, directories were removed, both volumes were asked
   once and the answer for the first differs from what the cycle had cached. *)
C16_Witness ==
    \E k \in Runs :
        /\ run[k].pc = "complete"
        /\ AffectedRoots(k) = Roots
        /\ run[k].deletedDirs # << >>
        /\ \A diskRoot \in Roots : run[k].probeCalls[diskRoot] = 1
        /\ run[k].postDeleteDiskCache[Root(run[k].results[1].recordingsPath)]
               # run[k].results[1].spaceInfo

Executed(k) == run[k].pc \in {"reprobe", "complete"}

(* C17: the execution of a plan is idempotent.  A call of fs.remove takes from
   the disk the directory it names and nothing else; on a directory that is
   already gone, because an earlier execution of the plan removed it, it changes
   neither the disk nor the free space, does not fail, and the directory is
   reported as deleted; the execution goes on with the next directory. *)
C17_SecondExecutionChangesNothing ==
    [][\A k \in Runs :
         (run[k].pc = "delete" /\ run'[k] # run[k])
            => LET dir == run[k].allDirsToDelete[run[k].j]
                   there == {x \in disk : x.path = dir.path}
               IN /\ disk' \in {disk, disk \ there}
                  /\ run'[k].pc \in {"delete", "reprobe", "complete"}
                  /\ run'[k].allDirsToDelete = run[k].allDirsToDelete
                  /\ there = {}
                        => /\ disk' = disk
                           /\ freeGB' = freeGB
                           /\ faults' = faults
                           /\ alive' = alive
                           /\ run'[k].deletedDirs = Append(run[k].deletedDirs, dir)]_vars

(* Two timers have executed the same plan without a failure: every directory of
   the plan was removed once and found gone once. *)
C17_Witness ==
    \E k, r \in Runs :
        /\ k # r
        /\ Executed(k) /\ Executed(r)
        /\ run[k].allDirsToDelete = run[r].allDirsToDelete
        /\ run[k].deletedDirs = run[k].allDirsToDelete
        /\ run[r].deletedDirs = run[r].allDirsToDelete
        /\ \A d \in Range(run[k].allDirsToDelete) : d \notin disk
        /\ faults = 0

(* C18: a plan never holds every subdirectory of a monitored path: of a path
   that has subdirectories when the plan is announced, at least one is not in
   the plan. *)
C18_MinimumKept ==
    \A k \in Runs :
        run[k].pc \in {"warn", "armed"}
            => \A n \in 1..Len(recordingsPaths) :
                 Children(disk, recordingsPaths[n]) # {}
                    => \E x \in Children(disk, recordingsPaths[n]) :
                          x \notin Range(run[k].allDirsToDelete)

PlanPaths(k) == {d.path : d \in Range(run[k].allDirsToDelete)}

(* C19: a timer is armed only by the step that delivers the warning, and the
   warning lists the plan of the timer; the plan is the same from then on,
   whatever happens to the free space in the meantime; the removal starts only
   from an armed timer; and fs.remove is called on the directories of that plan,
   on all of them once deleteDirectories has returned, and nothing else ever
   leaves the disk. *)
C19_RemovesWhatWasAnnounced ==
    /\ [](\A k \in Runs :
            /\ run[k].pc = "delete" => Range(run[k].removeCalls) \subseteq PlanPaths(k)
            /\ Executed(k) => Range(run[k].removeCalls) = PlanPaths(k))
    /\ [][/\ \A k \in Runs :
              /\ (run'[k].pc = "armed" /\ run[k].pc # "armed")
                    => /\ run[k].pc = "warn"
                       /\ mail' = Message("warning", k, run'[k].allDirsToDelete, << >>, "")
                       /\ run'[k].allDirsToDelete = run[k].allDirsToDelete
              /\ (Outstanding(k) /\ run'[k].pc \in {"armed", "delete", "reprobe", "complete"})
                    => run'[k].allDirsToDelete = run[k].allDirsToDelete
              /\ (run'[k].pc = "delete" /\ run[k].pc # "delete") => run[k].pc = "armed"
          /\ disk' # disk
                => /\ disk' \subseteq disk
                   /\ \E k \in Runs :
                        /\ run[k].pc = "delete"
                        /\ \A x \in disk \ disk' :
                             x.path = run[k].allDirsToDelete[run[k].j].path]_vars

(* Another timer has brought the free space of every volume back above the
   target; the timer of run k has fired all the same and its callback is about
   to remove the first directory of the plan that was announced. *)
C19_Witness ==
    \E k \in Runs :
        /\ run[k].pc = "delete"
        /\ run[k].removeCalls = << >>
        /\ run[k].allDirsToDelete # << >>
        /\ \A diskRoot \in Roots : 100 * freeGB[diskRoot] >= TargetFree100

(* C20: every directory of a plan is an immediate subdirectory of a monitored
   path that the cycle evaluated with a free space below minFreeSpaceGB, the free
   space its volume answered in that cycle; a volume that answered
   minFreeSpaceGB or more has no directory in any result or in the plan. *)
C20_OnlyVolumesBelowThreshold ==
    \A k \in Runs :
        /\ Planned(k)
              => \A d \in Range(run[k].allDirsToDelete) :
                    /\ Parent(d.path) \in Range(recordingsPaths)
                    /\ \E n \in 1..Len(run[k].results) :
                         /\ run[k].results[n].recordingsPath = Parent(d.path)
                         /\ d \in Range(run[k].results[n].dirsToDelete)
                         /\ run[k].results[n].spaceInfo.freeGB < minFreeSpaceGB
        /\ (InCycle(k) \/ Planned(k))
              => \A n \in 1..Len(run[k].results) :
                    \A d \in Range(run[k].results[n].dirsToDelete) :
                        /\ Parent(d.path) = run[k].results[n].recordingsPath
                        /\ run[k].results[n].spaceInfo.freeGB < minFreeSpaceGB
        /\ InCycle(k)
              => \A diskRoot \in Roots :
                    (/\ run[k].diskCache[diskRoot] # NoInfo
                     /\ run[k].diskCache[diskRoot].freeGB >= minFreeSpaceGB)
                        => /\ OnDisk(run[k].allDirsToDelete, diskRoot) = << >>
                           /\ \A n \in 1..Len(run[k].results) :
                                Root(run[k].results[n].recordingsPath) # diskRoot

(* One volume answered below the threshold and the other, which holds a
   directory, above: the plan is not empty and is about to be announced. *)
C20_Witness ==
    \E k \in Runs : \E low, high \in Roots :
        /\ run[k].pc = "warn"
        /\ run[k].diskCache[low] # NoInfo /\ run[k].diskCache[high] # NoInfo
        /\ run[k].diskCache[low].freeGB < minFreeSpaceGB
        /\ run[k].diskCache[high].freeGB >= minFreeSpaceGB
        /\ \E x \in disk : Root(x.path) = high /\ Parent(x.path) \in Range(recordingsPaths)
        /\ run[k].allDirsToDelete # << >>

-----------------------------------------------------------------------------
(* Properties of the plan of a volume *)

DistinctMtimes(S) == \A x, y \in S : x # y => x.mtime # y.mtime

RECURSIVE OldestFirst(_)
OldestFirst(S) ==
    IF S = {} THEN << >>
    ELSE LET x == CHOOSE x \in S : \A y \in S : x.mtime <= y.mtime
         IN <<x>> \o OldestFirst(S \ {x})

EvaluatedOn(k, diskRoot) ==
    {n \in 1..Len(run[k].results) : Root(run[k].results[n].recordingsPath) = diskRoot}

VolumeInventory(k, diskRoot) ==
    UNION {Children(disk, run[k].results[n].recordingsPath) : n \in EvaluatedOn(k, diskRoot)}

(* C21: when the directories of the paths of a volume have pairwise distinct
   modification times, the plan of the volume is the shortest oldest-first
   prefix, against the space to free of the volume, of all the directories of
   those paths taken together, and all of them when they are too few. *)
C21_PlanIsWholeVolumeSelection ==
    \A k \in Runs :
        run[k].pc \in {"warn", "armed"}
            => \A diskRoot \in Roots :
                 (EvaluatedOn(k, diskRoot) # {} /\ DistinctMtimes(VolumeInventory(k, diskRoot)))
                    => \A n \in EvaluatedOn(k, diskRoot) :
                         IsShortestPrefix(OnDisk(run[k].allDirsToDelete, diskRoot),
                                          OldestFirst(VolumeInventory(k, diskRoot)),
                                          SpaceToFree100(run[k].results[n].spaceInfo.freeGB))

(* The space to free, in 1/100 GB, to bring a volume with free GB free to
   minFreeSpaceGB * (1 + bufferPercentage / 100). *)
ToBufferedTarget(free) == minFreeSpaceGB * (100 + bufferPercentage) - 100 * free

(* C22: the trigger is the free space below minFreeSpaceGB, the aim is the
   buffered target.  Every result of a cycle was made with a free space below
   minFreeSpaceGB; a volume that answered minFreeSpaceGB or more, below the
   buffered target or not, has no result and no directory in the plan; a
   warning is prepared only with a volume below minFreeSpaceGB; and the plan of
   a triggered volume reaches the buffered target, or holds every directory of
   the evaluated paths of the volume, and is below the buffered target without
   its last directory. *)
C22_TriggerBelowMinimumAimAtTarget ==
    \A k \in Runs :
        /\ (InCycle(k) \/ Planned(k))
              => \A n \in 1..Len(run[k].results) :
                    run[k].results[n].spaceInfo.freeGB < minFreeSpaceGB
        /\ InCycle(k)
              => \A diskRoot \in Roots :
                    (/\ run[k].diskCache[diskRoot] # NoInfo
                     /\ run[k].diskCache[diskRoot].freeGB >= minFreeSpaceGB)
                        => /\ EvaluatedOn(k, diskRoot) = {}
                           /\ OnDisk(run[k].allDirsToDelete, diskRoot) = << >>
        /\ run[k].pc \in {"warn", "armed"}
              => /\ \E n \in 1..Len(run[k].results) :
                      /\ run[k].results[n].spaceInfo.freeGB < minFreeSpaceGB
                      /\ HasDirs(run[k].results[n])
                 /\ \A diskRoot \in Roots : \A n \in EvaluatedOn(k, diskRoot) :
                      LET plan == OnDisk(run[k].allDirsToDelete, diskRoot)
                          need == ToBufferedTarget(run[k].results[n].spaceInfo.freeGB)
                      IN /\ plan # << >> => 100 * SumSize(Front(plan)) < need
                         /\ \/ 100 * SumSize(plan) >= need
                            \/ VolumeInventory(k, diskRoot) \subseteq Range(plan)

(* Without its last directory the plan already brings the volume to
   minFreeSpaceGB, and the last directory is in it to reach the buffered
   target. *)
C22_Witness ==
    \E k \in Runs : \E diskRoot \in Roots : \E n \in EvaluatedOn(k, diskRoot) :
        LET plan == OnDisk(run[k].allDirsToDelete, diskRoot)
            free == run[k].results[n].spaceInfo.freeGB
        IN /\ run[k].pc = "armed"
           /\ Len(plan) >= 2
           /\ NoRepeat(plan)
           /\ free + SumSize(Front(plan)) >= minFreeSpaceGB
           /\ 100 * SumSize(Front(plan)) < ToBufferedTarget(free)
           /\ 100 * SumSize(plan) >= ToBufferedTarget(free)

====
